---- MODULE Spec2Model ----
(***************************************************************************)
(* plex-proxy: a reverse proxy in front of a Plex server.  It captures the *)
(* metadata-children response to learn (part key -> file) pairs and the    *)
(* tokens that fetched them, and afterwards sends requests for known part  *)
(* keys by known tokens to an rclone gateway instead of the origin.        *)
(*                                                                         *)
(* The model follows src/src/proxy.rs: one handler per inbound request,    *)
(* each advancing from one suspension point (.await) to the next; the two  *)
(* tokio RwLocks with their FIFO wait queues; the clock behind Instant.    *)
(***************************************************************************)
EXTENDS Integers, Sequences, FiniteSets, TLC

\* ------------------------------------------------------------------------
\* Bounds of the model
\* ------------------------------------------------------------------------
TicksPerSec == 2      \* clock resolution: ticks per second (Instant is sub-second)
SmallSize == 64       \* size in bytes of a body far below the limit

\* ------------------------------------------------------------------------
\* Program constants
\* ------------------------------------------------------------------------
TOKEN_TTL_MINUTES == 15
BodyLimit == 1048576
StatusOK == 200
StatusBadGateway == 502
StatusMethodNotAllowed == 405

\* the request handlers that can be in flight at once
Reqs == {1, 2}

TtlSecs == TOKEN_TTL_MINUTES * 60
TtlTicks == TtlSecs * TicksPerSec
\* the instants at which something happens: the start, and every tick of the
\* second that follows the end of the TTL
Instants == {0} \cup { TtlTicks + j : j \in 1..TicksPerSec }

\* Duration::as_secs: whole seconds, the fraction is dropped
as_secs(d) == d \div TicksPerSec

\* ------------------------------------------------------------------------
\* Strings that the code takes apart are sequences of characters
\* ------------------------------------------------------------------------
RECURSIVE trim_end_matches(_, _)
trim_end_matches(s, c) ==
    IF Len(s) > 0 /\ s[Len(s)] = c
    THEN trim_end_matches(SubSeq(s, 1, Len(s) - 1), c)
    ELSE s

RECURSIVE trim_start_matches(_, _)
trim_start_matches(s, c) ==
    IF Len(s) > 0 /\ s[1] = c
    THEN trim_start_matches(Tail(s), c)
    ELSE s

\* strip_prefix that cuts as many characters as the prefix has, unchecked
strip_prefix_unchecked(s, p) == { SubSeq(s, Len(p) + 1, Len(s)) }

\* str::strip_prefix: an Option, here the set of at most one remainder
strip_prefix(s, p) ==
    IF Len(p) <= Len(s) /\ SubSeq(s, 1, Len(p)) = p
    THEN { SubSeq(s, Len(p) + 1, Len(s)) }
    ELSE {}

\* the join without trimming the path
gateway_url_untrimmed(base, rest) == trim_end_matches(base, "/") \o <<"/">> \o rest

\* format!("{}/{}", rclone_url.trim_end_matches('/'), path.trim_start_matches('/'))
gateway_url(base, rest) ==
    trim_end_matches(base, "/") \o <<"/">> \o trim_start_matches(rest, "/")

\* ------------------------------------------------------------------------
\* Inputs
\* ------------------------------------------------------------------------
Tokens == {"t1", "t2"}
\* the x-plex-token header of a request: absent, or present with a value
NoHeader == [present |-> FALSE, value |-> ""]
TextHeader(t) == [present |-> TRUE, value |-> t]
TokenHeaders == {NoHeader} \cup { TextHeader(t) : t \in Tokens }

\* headers.get("x-plex-token").and_then(|v| v.to_str().ok()): an Option, the
\* set of at most one token
token_of(h) == IF h.present THEN {h.value} ELSE {}

Methods == {"GET", "POST"}

ChildrenPath == <<"library", "metadata", "1", "children">>
PartKey1 == <<"library", "parts", "1", "file.mkv">>
PartKey2 == <<"library", "parts", "2", "file.mkv">>
Paths == {ChildrenPath, PartKey1, PartKey2}

\* inbound requests: GET of the capture path with and without a token, GET of
\* the first part key with token t1 and without, and with token t1 a POST to
\* both and a GET of the second part key
Requests ==
    { req \in [method : Methods, path : Paths, token : TokenHeaders] :
        /\ req.method # "GET" => req.token = TextHeader("t1") /\ req.path # PartKey2
        /\ req.path = PartKey1 => req.token # TextHeader("t2")
        /\ req.path = PartKey2 => req.token = TextHeader("t1") }

\* "/data/movies/a.mkv", "/data//b" and "/x/a"
FileA == <<"/", "d", "a", "t", "a", "/", "m", "o", "v", "i", "e", "s", "/",
           "a", ".", "m", "k", "v">>
FileB == <<"/", "d", "a", "t", "a", "/", "/", "b">>
FileX == <<"/", "x", "/", "a">>

\* the configuration: library root "/data", gateway base "gw//"
LibraryPaths == { <<"/", "d", "a", "t", "a">> }
RcloneUrls == { <<"g", "w", "/", "/">> }

\* ------------------------------------------------------------------------
\* Bodies: a size in bytes and the content; json says whether the bytes
\* are well-formed JSON, content is then the JSON object
\* ------------------------------------------------------------------------
TextBody(s) == [size |-> SmallSize, json |-> FALSE, content |-> [text |-> s]]
JsonBody(n, j) == [size |-> n, json |-> TRUE, content |-> j]

MkPart(k, f) == [key |-> k, file |-> f, id |-> 7]
DocOne ==
    [MediaContainer |-> [size |-> 1, Metadata |->
        << [title |-> "m", Media |-> << [Part |-> << MkPart(PartKey1, FileA) >>] >>] >>]]
DocTwo ==
    [MediaContainer |-> [Metadata |->
        << [Media |-> << [Part |-> << MkPart(PartKey1, FileX) >>] >>],
           [Media |-> << [Part |-> << MkPart(PartKey2, FileB) >>] >>] >>]]
DocNoMedia ==
    [MediaContainer |-> [Metadata |->
        << [title |-> "dir"],
           [Media |-> << [Part |-> << MkPart(PartKey2, FileA) >>] >>] >>]]

\* An upstream reply as the proxy receives it: status and headers first, the
\* body as a stream behind them; intact says whether the stream will deliver
\* the whole body or break on the way
\* on the wire; headers are a set of header lines
Reply(st, h, b, ok) == [status |-> st, headers |-> {h}, body |-> b, intact |-> ok]

\* a reply whose body b travels gzip-encoded in n bytes
ContentEncodingGzip == "content-encoding: gzip"
ContentLength == "content-length"
GzipReply(st, h, n, b, ok) ==
    [status |-> st, headers |-> {h, ContentEncodingGzip, ContentLength},
     body |-> [size |-> n, json |-> FALSE, content |-> [gzip |-> b]], intact |-> ok]

\* reqwest::Client::builder().gzip(true): a reply with Content-Encoding gzip
\* reaches the handler decoded, without Content-Encoding and Content-Length
client(reply) ==
    IF ContentEncodingGzip \in reply.headers
    THEN [status |-> reply.status,
          headers |-> reply.headers \ {ContentEncodingGzip, ContentLength},
          body |-> reply.body.content.gzip, intact |-> reply.intact]
    ELSE reply

\* what the origin answers on the capture path ...
MetadataReplies ==
    { Reply(StatusOK, "h1", JsonBody(SmallSize, DocOne), TRUE),
      Reply(StatusOK, "h2", JsonBody(BodyLimit, DocTwo), TRUE),
      Reply(StatusOK, "h1", JsonBody(SmallSize, DocNoMedia), TRUE),
      Reply(StatusOK, "h2", TextBody("<html>"), TRUE),
      Reply(StatusOK, "h1", JsonBody(BodyLimit + 1, DocOne), TRUE),
      Reply(StatusOK, "h2", JsonBody(SmallSize, DocOne), FALSE),
      GzipReply(StatusOK, "h1", SmallSize, JsonBody(BodyLimit, DocOne), TRUE),
      GzipReply(StatusOK, "h2", SmallSize, JsonBody(BodyLimit + 1, DocOne), TRUE),
      Reply(500, "h2", JsonBody(BodyLimit + 1, DocOne), TRUE) }

\* ... and on the other paths
MediaReplies ==
    { Reply(StatusOK, "h5", JsonBody(BodyLimit + 1, DocTwo), TRUE),
      Reply(StatusOK, "h5", TextBody("media bytes"), FALSE),
      Reply(404, "h6", TextBody("not found"), TRUE) }

GatewayReplies ==
    { Reply(StatusOK, "h3", TextBody("media bytes"), TRUE),
      Reply(404, "h4", TextBody("no such file"), TRUE),
      Reply(StatusOK, "h3", TextBody("media bytes"), FALSE) }

\* ------------------------------------------------------------------------
\* serde_json::from_slice::<Container>: every field of the derive structs is
\* required, unknown fields are ignored
\* ------------------------------------------------------------------------
PartOk(p) == {"key", "file"} \subseteq DOMAIN p
MediaOk(m) == "Part" \in DOMAIN m /\ \A i \in 1..Len(m.Part) : PartOk(m.Part[i])
MetadataOk(md) == "Media" \in DOMAIN md /\ \A i \in 1..Len(md.Media) : MediaOk(md.Media[i])
MediaContainerOk(mc) ==
    "Metadata" \in DOMAIN mc /\ \A i \in 1..Len(mc.Metadata) : MetadataOk(mc.Metadata[i])
ContainerOk(j) == "MediaContainer" \in DOMAIN j /\ MediaContainerOk(j.MediaContainer)

from_slice(data) == IF data.json /\ ContainerOk(data.content) THEN {data.content} ELSE {}

\* Iterator::flat_map: the sequences of ss one after the other
RECURSIVE flat_map(_)
flat_map(ss) == IF ss = <<>> THEN <<>> ELSE Head(ss) \o flat_map(Tail(ss))

\* the pairs of a media entry with key and file exchanged
PartPairsSwapped(media) ==
    [i \in 1..Len(media.Part) |-> <<media.Part[i].file, media.Part[i].key>>]

PartPairs(media) == [i \in 1..Len(media.Part) |-> <<media.Part[i].key, media.Part[i].file>>]
MediaPairs(md) == flat_map([i \in 1..Len(md.Media) |-> PartPairs(md.Media[i])])
container_parts(container) ==
    LET mds == container.MediaContainer.Metadata
    IN  flat_map([i \in 1..Len(mds) |-> MediaPairs(mds[i])])

\* ------------------------------------------------------------------------
\* State
\* ------------------------------------------------------------------------
VARIABLES
    plex_library_path,  \* ProxyState.plex_library_path
    rclone_url,         \* ProxyState.rclone_url
    seen_tokens,        \* ProxyState.seen_tokens: token -> Instant of last add
    media_map,          \* ProxyState.media_map: part key -> file
    now,                \* the clock read by Instant::now(), in ticks
    tok_readers,        \* handlers holding a read guard of seen_tokens
    tok_queue,          \* handlers waiting for seen_tokens, in arrival order
    media_readers,      \* handlers holding a read guard of media_map
    media_queue,        \* handlers waiting for media_map, in arrival order
    pc,                 \* where each handler is suspended
    request,            \* the inbound request of each handler
    response,           \* what pass_to_plex returned to capture_metadata
    parts,              \* the (key, file) pairs capture_metadata has yet to add
    sent,               \* the upstream calls each handler has issued
    exchange            \* the exchange completed by the latest step, if any:
                        \* the request, the calls made for it, what the
                        \* upstream replied and the response to the client

cfg == <<plex_library_path, rclone_url>>
caches == <<seen_tokens, media_map>>
locks == <<tok_readers, tok_queue, media_readers, media_queue>>
locals == <<pc, request, response, parts, sent>>
vars == <<cfg, caches, now, locks, locals, exchange>>

EmptyMap == [k \in {} |-> 0]

NoRequest == [method |-> "", path |-> <<>>, token |-> NoHeader]
NoReply == Reply(0, "", TextBody(""), FALSE)
NoResponse == [status |-> 0, headers |-> {""}, body |-> TextBody(""), complete |-> FALSE]
NoExchange ==
    [request |-> NoRequest, sent |-> <<>>, response |-> NoReply, resp |-> NoResponse]

\* (StatusCode::BAD_GATEWAY, msg) turned into a response
ErrorResponse(msg) ==
    [status |-> StatusBadGateway, headers |-> {"text/plain"}, body |-> TextBody(msg),
     complete |-> TRUE]

\* a relay that stops at the body limit
StreamResponseCapped(reply) ==
    [status |-> reply.status, headers |-> reply.headers, body |-> reply.body,
     complete |-> reply.intact /\ reply.body.size <= BodyLimit]

\* Response::builder().status(..).headers(..).body(Body::from_stream(..)):
\* status and headers of the upstream, the body relayed as it arrives
StreamResponse(reply) ==
    [status |-> reply.status, headers |-> reply.headers, body |-> reply.body,
     complete |-> reply.intact]

\* Response::builder().status(status).headers(headers).body(Body::from(data))
BufferedResponse(status, headers, data) ==
    [status |-> status, headers |-> headers, body |-> data, complete |-> TRUE]

\* client().request(method, url).headers(request.headers().clone()).body(..)
PlexCall(req) ==
    [to |-> "plex", method |-> req.method, target |-> req.path, headers |-> req.token]
\* client().get(rclone_url)
RcloneCall(url) == [to |-> "rclone", method |-> "GET", target |-> url, headers |-> NoHeader]

\* ------------------------------------------------------------------------
\* ProxyState
\* ------------------------------------------------------------------------
\* add_token that sweeps but does not insert
add_token_sweep_only(tokens, token, t) ==
    [k \in { j \in DOMAIN tokens : as_secs(t - tokens[j]) <= TOKEN_TTL_MINUTES * 60 } |->
        tokens[k]]

add_token(tokens, token, t) ==
    LET inserted == [k \in DOMAIN tokens \cup {token} |->
                        IF k = token THEN t ELSE tokens[k]]
        stale_tokens == { k \in DOMAIN inserted :
                            as_secs(t - inserted[k]) > TOKEN_TTL_MINUTES * 60 }
    IN  [k \in DOMAIN inserted \ stale_tokens |-> inserted[k]]

\* add_media that keeps the entry a key already has
add_media_if_absent(map, key, file) ==
    [k \in DOMAIN map \cup {key} |-> IF k \in DOMAIN map THEN map[k] ELSE file]

\* add_media that starts a new map
add_media_alone(map, key, file) == [k \in {key} |-> file]

add_media(map, key, file) ==
    [k \in DOMAIN map \cup {key} |-> IF k = key THEN file ELSE map[k]]

\* a membership test that every token passes
contains_key_any(tokens, token) == TRUE

\* seen_tokens.contains_key(token)
contains_key(tokens, token) == token \in DOMAIN tokens

\* media_map.get(path): an Option, the set of at most one file
media_get(map, path) == IF path \in DOMAIN map THEN {map[path]} ELSE {}

\* a status test that every status passes
is_ok_any(status) == TRUE

\* matches!(response.status(), StatusCode::OK)
is_ok(status) == status = StatusOK

\* tokio::sync::RwLock: waiters are served in arrival order; a reader is
\* admitted when it is first in line, a writer when it is first in line and
\* no read guard is out.  A write guard is never kept across an await, so a
\* writer takes the lock, updates and releases in one step.
Waiter(r, mode) == [req |-> r, mode |-> mode]
ReadGranted(queue, r) == queue # <<>> /\ Head(queue) = Waiter(r, "read")
\* a write lock that also waits until no reader is queued
WriteGrantedAfterReaders(queue, readers, r) ==
    /\ queue # <<>> /\ Head(queue) = Waiter(r, "write") /\ readers = {}
    /\ \A i \in DOMAIN queue : queue[i].mode # "read"

WriteGranted(queue, readers, r) ==
    queue # <<>> /\ Head(queue) = Waiter(r, "write") /\ readers = {}

\* Router: .route("/library/metadata/:id/children", get(capture_metadata))
\*         .fallback(fallback)
MatchesChildren(path) ==
    /\ Len(path) = 4
    /\ path[1] = "library" /\ path[2] = "metadata" /\ path[4] = "children"
    /\ path[3] # ""
OriginReplies(path) == IF MatchesChildren(path) THEN MetadataReplies ELSE MediaReplies

Route(req) ==
    IF MatchesChildren(req.path)
    THEN IF req.method \in {"GET", "HEAD"} THEN "capture_metadata" ELSE "method_not_allowed"
    ELSE "fallback"

\* ------------------------------------------------------------------------
\* Init: make_proxy builds the state with both maps empty
\* ------------------------------------------------------------------------
Init ==
    /\ plex_library_path \in LibraryPaths
    /\ rclone_url \in RcloneUrls
    /\ seen_tokens = EmptyMap
    /\ media_map = EmptyMap
    /\ now = 0
    /\ tok_readers = {} /\ tok_queue = <<>>
    /\ media_readers = {} /\ media_queue = <<>>
    /\ pc = [r \in Reqs |-> "idle"]
    /\ request = [r \in Reqs |-> NoRequest]
    /\ response = [r \in Reqs |-> NoReply]
    /\ parts = [r \in Reqs |-> <<>>]
    /\ sent = [r \in Reqs |-> <<>>]
    /\ exchange = NoExchange

\* no completed exchange is waiting to be observed
Observed == exchange = NoExchange

\* The handler returns: its client gets the response, its locals are gone
Return(r, reply, out) ==
    /\ pc' = [pc EXCEPT ![r] = "idle"]
    /\ exchange' = [request |-> request[r], sent |-> sent[r],
                    response |-> reply, resp |-> out]
    /\ request' = [request EXCEPT ![r] = NoRequest]
    /\ response' = [response EXCEPT ![r] = NoReply]
    /\ parts' = [parts EXCEPT ![r] = <<>>]
    /\ sent' = [sent EXCEPT ![r] = <<>>]

\* pass_to_plex that sends the request a second time
CallPlexTwice(r, req) ==
    /\ sent' = [sent EXCEPT ![r] = Append(Append(@, PlexCall(req)), PlexCall(req))]
    /\ pc' = [pc EXCEPT ![r] = "pass_to_plex"]

\* pass_to_plex up to its send().await
CallPlex(r, req) ==
    /\ sent' = [sent EXCEPT ![r] = Append(@, PlexCall(req))]
    /\ pc' = [pc EXCEPT ![r] = "pass_to_plex"]

\* ------------------------------------------------------------------------
\* A request arrives and runs to its first await
\* ------------------------------------------------------------------------
Dispatch(r) ==
    /\ pc[r] = "idle"
    /\ Observed
    /\ \A q \in Reqs : q < r => pc[q] # "idle"
    /\ \E req \in Requests :
        CASE Route(req) = "capture_metadata" ->
               \* capture_metadata: pass_to_plex(state, request).await
               /\ request' = [request EXCEPT ![r] = req]
               /\ exchange' = NoExchange
               /\ CallPlex(r, req)
               /\ UNCHANGED tok_queue
          [] Route(req) = "method_not_allowed" ->
               \* the path has a route, but not for this method
               /\ exchange' =
                      [request |-> req, sent |-> <<>>, response |-> NoReply,
                       resp |-> [status |-> StatusMethodNotAllowed, headers |-> {"allow"},
                                 body |-> TextBody(""), complete |-> TRUE]]
               /\ UNCHANGED <<pc, request, sent, tok_queue>>
          [] Route(req) = "fallback" ->
               /\ request' = [request EXCEPT ![r] = req]
               /\ exchange' = NoExchange
               /\ IF token_of(req.token) = {}
                  THEN \* no usable token header: pass_to_plex
                       /\ CallPlex(r, req)
                       /\ UNCHANGED tok_queue
                  ELSE \* state.seen_tokens.read().await
                       /\ tok_queue' = Append(tok_queue, Waiter(r, "read"))
                       /\ pc' = [pc EXCEPT ![r] = "seen_tokens_read"]
                       /\ UNCHANGED sent
    /\ UNCHANGED <<cfg, caches, now, tok_readers, media_readers, media_queue,
                   response, parts>>

\* ------------------------------------------------------------------------
\* fallback
\* ------------------------------------------------------------------------
\* the read guard of seen_tokens is granted; contains_key(token)
fallback_tokens(r) ==
    /\ pc[r] = "seen_tokens_read"
    /\ Observed
    /\ ReadGranted(tok_queue, r)
    /\ tok_queue' = Tail(tok_queue)
    /\ LET token == CHOOSE t \in token_of(request[r].token) : TRUE IN
        IF contains_key(seen_tokens, token)
        THEN \* state.media_map.read().await, the seen_tokens guard still held
             /\ tok_readers' = tok_readers \cup {r}
             /\ media_queue' = Append(media_queue, Waiter(r, "read"))
             /\ pc' = [pc EXCEPT ![r] = "media_map_read"]
             /\ UNCHANGED sent
        ELSE \* the guard is dropped at the end of the block; pass_to_plex
             /\ CallPlex(r, request[r])
             /\ UNCHANGED <<tok_readers, media_queue>>
    /\ exchange' = NoExchange
    /\ UNCHANGED <<cfg, caches, now, media_readers, request, response, parts>>

\* the read guard of media_map is granted; get(path), strip_prefix
fallback_media(r) ==
    /\ pc[r] = "media_map_read"
    /\ Observed
    /\ ReadGranted(media_queue, r)
    /\ media_queue' = Tail(media_queue)
    /\ LET path == request[r].path
           file == media_get(media_map, path)
           rest == IF file # {}
                   THEN strip_prefix(CHOOSE f \in file : TRUE, plex_library_path)
                   ELSE {}
       IN  IF rest # {}
           THEN \* return pass_to_rclone(&url).await, both guards still held
                /\ media_readers' = media_readers \cup {r}
                /\ sent' = [sent EXCEPT ![r] =
                       Append(@, RcloneCall(gateway_url(rclone_url,
                                                        CHOOSE x \in rest : TRUE)))]
                /\ pc' = [pc EXCEPT ![r] = "pass_to_rclone"]
                /\ UNCHANGED tok_readers
           ELSE \* both guards are dropped; pass_to_plex
                /\ tok_readers' = tok_readers \ {r}
                /\ CallPlex(r, request[r])
                /\ UNCHANGED media_readers
    /\ exchange' = NoExchange
    /\ UNCHANGED <<cfg, caches, now, tok_queue, request, response, parts>>

\* pass_to_rclone: the gateway answers or the call fails; fallback returns
\* and drops both guards
pass_to_rclone(r) ==
    /\ pc[r] = "pass_to_rclone"
    /\ Observed
    /\ \/ Return(r, NoReply, ErrorResponse("Failed to proxy request"))
       \/ \E reply \in GatewayReplies : Return(r, reply, StreamResponse(client(reply)))
    /\ tok_readers' = tok_readers \ {r}
    /\ media_readers' = media_readers \ {r}
    /\ UNCHANGED <<cfg, caches, now, tok_queue, media_queue>>

\* ------------------------------------------------------------------------
\* pass_to_plex: the origin answers or the call fails
\* ------------------------------------------------------------------------
pass_to_plex_err(r) ==
    /\ pc[r] = "pass_to_plex"
    /\ Observed
    /\ Return(r, NoReply, ErrorResponse("Failed to proxy request"))
    /\ UNCHANGED <<cfg, caches, now, locks>>

pass_to_plex_ok(r) ==
    /\ pc[r] = "pass_to_plex"
    /\ Observed
    /\ \E reply \in OriginReplies(request[r].path) :
        IF Route(request[r]) = "capture_metadata" /\ is_ok(reply.status)
        THEN \* capture_metadata goes on with the response
             /\ response' = [response EXCEPT ![r] = reply]
             /\ IF token_of(request[r].token) # {}
                THEN \* state.add_token(plex_token).await: seen_tokens.write().await
                     /\ tok_queue' = Append(tok_queue, Waiter(r, "write"))
                     /\ pc' = [pc EXCEPT ![r] = "add_token"]
                ELSE /\ pc' = [pc EXCEPT ![r] = "to_bytes"]
                     /\ UNCHANGED tok_queue
             /\ exchange' = NoExchange
             /\ UNCHANGED <<request, parts, sent>>
        ELSE \* fallback, or capture_metadata with a status other than 200
             /\ Return(r, reply, StreamResponse(client(reply)))
             /\ UNCHANGED tok_queue
    /\ UNCHANGED <<cfg, caches, now, tok_readers, media_readers, media_queue>>

\* ------------------------------------------------------------------------
\* capture_metadata after a 200
\* ------------------------------------------------------------------------
\* ProxyState::add_token under the write guard
capture_add_token(r) ==
    /\ pc[r] = "add_token"
    /\ Observed
    /\ WriteGranted(tok_queue, tok_readers, r)
    /\ tok_queue' = Tail(tok_queue)
    /\ seen_tokens' = add_token(seen_tokens,
                                CHOOSE t \in token_of(request[r].token) : TRUE, now)
    /\ pc' = [pc EXCEPT ![r] = "to_bytes"]
    /\ UNCHANGED <<cfg, media_map, now, tok_readers, media_readers, media_queue,
                   request, response, parts, sent>>
    /\ exchange' = NoExchange

\* to_bytes that refuses a body of exactly the limit
to_bytes_below(body, intact, limit) == IF intact /\ body.size < limit THEN {body} ELSE {}

\* body::to_bytes(response.into_body(), 1_048_576).await
to_bytes(body, intact, limit) == IF intact /\ body.size <= limit THEN {body} ELSE {}

\* to_bytes, from_slice, and the first add_media up to its write().await
capture_to_bytes(r) ==
    /\ pc[r] = "to_bytes"
    /\ Observed
    /\ LET plex_resp == client(response[r])
           data == to_bytes(plex_resp.body, plex_resp.intact, BodyLimit)
       IN
        IF data = {}
        THEN /\ Return(r, response[r], ErrorResponse("Failed to read response body"))
             /\ UNCHANGED media_queue
        ELSE LET bytes == CHOOSE d \in data : TRUE
                 container == from_slice(bytes)
                 pairs == IF container = {} THEN <<>>
                          ELSE container_parts(CHOOSE c \in container : TRUE)
             IN  IF pairs = <<>>
                 THEN \* parse error or no parts: respond with the buffered bytes
                      /\ Return(r, response[r],
                                BufferedResponse(plex_resp.status,
                                                    plex_resp.headers, bytes))
                      /\ UNCHANGED media_queue
                 ELSE \* state.add_media(key, file).await: media_map.write().await
                      /\ parts' = [parts EXCEPT ![r] = pairs]
                      /\ media_queue' = Append(media_queue, Waiter(r, "write"))
                      /\ pc' = [pc EXCEPT ![r] = "add_media"]
                      /\ exchange' = NoExchange
                      /\ UNCHANGED <<request, response, sent>>
    /\ UNCHANGED <<cfg, caches, now, tok_readers, tok_queue, media_readers>>

\* ProxyState::add_media under the write guard, then the next pair or the response
capture_add_media(r) ==
    /\ pc[r] = "add_media"
    /\ Observed
    /\ WriteGranted(media_queue, media_readers, r)
    /\ media_map' = add_media(media_map, Head(parts[r])[1], Head(parts[r])[2])
    /\ IF Tail(parts[r]) # <<>>
       THEN /\ parts' = [parts EXCEPT ![r] = Tail(@)]
            /\ media_queue' = Append(Tail(media_queue), Waiter(r, "write"))
            /\ exchange' = NoExchange
            /\ UNCHANGED <<pc, request, response, sent>>
       ELSE /\ media_queue' = Tail(media_queue)
            /\ Return(r, response[r],
                      BufferedResponse(client(response[r]).status,
                                       client(response[r]).headers,
                                       client(response[r]).body))
    /\ UNCHANGED <<cfg, seen_tokens, now, tok_readers, tok_queue, media_readers>>

\* ------------------------------------------------------------------------
\* The clock
\* ------------------------------------------------------------------------
Tick ==
    /\ Observed
    /\ \E t \in Instants : t > now /\ now' = t
    /\ exchange' = NoExchange
    /\ UNCHANGED <<cfg, caches, locks, locals>>

\* a completed exchange is observed before the next step is taken
Delivered ==
    /\ exchange # NoExchange
    /\ exchange' = NoExchange
    /\ UNCHANGED <<cfg, caches, now, locks, locals>>

Next ==
    \/ Delivered
    \/ \E r \in Reqs : Dispatch(r)
    \/ \E r \in Reqs : fallback_tokens(r)
    \/ \E r \in Reqs : fallback_media(r)
    \/ \E r \in Reqs : pass_to_rclone(r)
    \/ \E r \in Reqs : pass_to_plex_err(r)
    \/ \E r \in Reqs : pass_to_plex_ok(r)
    \/ \E r \in Reqs : capture_add_token(r)
    \/ \E r \in Reqs : capture_to_bytes(r)
    \/ \E r \in Reqs : capture_add_media(r)
    \/ Tick

Spec == Init /\ [][Next]_vars

\* ------------------------------------------------------------------------
\* Vocabulary of the properties
\* ------------------------------------------------------------------------
Last(q) == q[Len(q)]
\* handler r issues a call to the gateway in this step
GatewayCallIssued(r) == Len(sent'[r]) > Len(sent[r]) /\ Last(sent'[r]).to = "rclone"
\* handler r issues a call to the origin in this step
OriginCallIssued(r) == Len(sent'[r]) > Len(sent[r]) /\ Last(sent'[r]).to = "plex"
\* handler r is serving a request that the router gave to fallback
InFallback(r) == pc[r] # "idle" /\ Route(request[r]) = "fallback"
InCapture(r) == pc[r] # "idle" /\ Route(request[r]) = "capture_metadata"
\* the token of r's request is a key of TokenCache
TokenKnown(r) == \E t \in token_of(request[r].token) : t \in DOMAIN seen_tokens
\* p is a prefix of s
IsPrefix(p, s) == Len(p) <= Len(s) /\ \A i \in 1..Len(p) : s[i] = p[i]
\* handler r takes its decision on the token in this step
DecidesOnToken(r) ==
    \/ pc[r] = "idle" /\ pc'[r] # "idle" /\ Route(request'[r]) = "fallback"
       /\ token_of(request'[r].token) = {}
    \/ pc[r] = "seen_tokens_read" /\ pc'[r] # "seen_tokens_read"
\* handler r takes its decision on the media entry in this step
DecidesOnMedia(r) == pc[r] = "media_map_read" /\ pc'[r] # "media_map_read"

\* C1: a fallback request goes to the gateway only if, when it reads the
\* caches, its token is a key of TokenCache and its path a key of MediaIndex;
\* with no token header, or a token that is not in TokenCache, it goes to the
\* origin, and a request on its way to the origin never turns to the gateway.
C1_GatewayOnlyForKnownTokenAndKey ==
    [][\A r \in Reqs :
        /\ GatewayCallIssued(r) =>
              /\ InFallback(r)
              /\ TokenKnown(r)
              /\ request[r].path \in DOMAIN media_map
        /\ (DecidesOnToken(r) /\ ~TokenKnown(r)') =>
              /\ OriginCallIssued(r)
              /\ pc'[r] = "pass_to_plex"
        /\ pc[r] = "pass_to_plex" => ~GatewayCallIssued(r)
      ]_vars

\* a fallback request is at the gateway while a capture is under way
C1_Witness ==
    \E r, q \in Reqs :
        /\ pc[r] = "pass_to_rclone" /\ InFallback(r)
        /\ InCapture(q) /\ pc[q] \in {"add_token", "to_bytes", "add_media"}

\* C2: when the file stored for the request path does not start with the
\* library root, the request goes to the origin and not to the gateway, also
\* with a known token and a matching key.
C2_NoRedirectOutsideLibraryRoot ==
    [][\A r \in Reqs :
        /\ ( /\ DecidesOnMedia(r)
             /\ request[r].path \in DOMAIN media_map
             /\ ~IsPrefix(plex_library_path, media_map[request[r].path]) ) =>
              /\ OriginCallIssued(r)
              /\ pc'[r] = "pass_to_plex"
        /\ GatewayCallIssued(r) =>
              IsPrefix(plex_library_path, media_map[request[r].path])
      ]_vars

\* a request with a known token for a key whose file lies outside the library
\* root has been sent to the origin
C2_Witness ==
    \E r \in Reqs :
        /\ pc[r] = "pass_to_plex" /\ InFallback(r) /\ TokenKnown(r)
        /\ request[r].path \in DOMAIN media_map
        /\ media_map[request[r].path] = FileX

\* C3: the gateway target is the gateway base without its trailing
\* separators, one "/", and the stored file without the library root and
\* without the separators that follow it; "/data/movies/a.mkv" under "/data"
\* gives "{base}/movies/a.mkv".  The call is a GET whatever the inbound method.
TrimmedBase(b, base) ==
    \E n \in 0..Len(base) :
        /\ b = SubSeq(base, 1, n)
        /\ \A i \in (n + 1)..Len(base) : base[i] = "/"
        /\ n > 0 => base[n] # "/"
RelativePath(p, file, root) ==
    \E n \in Len(root)..Len(file) :
        /\ IsPrefix(root, file)
        /\ p = SubSeq(file, n + 1, Len(file))
        /\ \A i \in (Len(root) + 1)..n : file[i] = "/"
        /\ n < Len(file) => file[n + 1] # "/"
MoviesA == <<"m", "o", "v", "i", "e", "s", "/", "a", ".", "m", "k", "v">>
C3_GatewayTarget ==
    [][\A r \in Reqs :
        GatewayCallIssued(r) =>
            LET call == Last(sent'[r])
                file == media_map[request[r].path]
            IN  /\ call.method = "GET"
                /\ \E n \in 0..Len(call.target) :
                      /\ TrimmedBase(SubSeq(call.target, 1, n), rclone_url)
                      /\ n < Len(call.target) /\ call.target[n + 1] = "/"
                      /\ RelativePath(SubSeq(call.target, n + 2, Len(call.target)),
                                      file, plex_library_path)
                /\ (file = FileA /\ plex_library_path = <<"/", "d", "a", "t", "a">>) =>
                      call.target = <<"g", "w", "/">> \o MoviesA
      ]_vars

\* a POST for the key of "/data/movies/a.mkv" is at the gateway
C3_Witness ==
    \E r \in Reqs :
        /\ pc[r] = "pass_to_rclone"
        /\ request[r].method = "POST"
        /\ media_map[request[r].path] = FileA
        /\ sent[r] = << RcloneCall(<<"g", "w", "/">> \o MoviesA) >>

\* ------------------------------------------------------------------------
\* The capture route
\* ------------------------------------------------------------------------
\* the exchange just completed was a capture request
CaptureExchange == Route(exchange.request) = "capture_metadata"
\* handler r performs its add_token in this step
AddTokenStep(r) == pc[r] = "add_token" /\ pc'[r] # "add_token"
\* handler r performs an add_media in this step
AddMediaStep(r) == pc[r] = "add_media" /\ parts'[r] # parts[r]
TokenOfReq(r) == CHOOSE t \in token_of(request[r].token) : TRUE

\* C4 as stated: a capture request whose origin status is 200 and whose
\* body arrives and is within the 1 MiB limit is answered with the origin's
\* status, headers and exact body bytes, the same whether the body parses or
\* not.
C4_CaptureAnswersWithOriginBytes ==
    ( /\ CaptureExchange
      /\ exchange.response.status = StatusOK
      /\ exchange.response.intact
      /\ exchange.response.body.size <= BodyLimit ) =>
        exchange.resp = [status |-> exchange.response.status,
                         headers |-> exchange.response.headers,
                         body |-> exchange.response.body,
                         complete |-> TRUE]

\* C4 as amended: a capture request whose origin status is 200 and whose
\* body arrives and is, once decoded, within the 1 MiB limit is answered with
\* the origin's status and with the headers and body bytes as the client
\* hands them over: those of the origin, except that a gzip-encoded body is
\* decoded and loses its Content-Encoding and Content-Length headers; the
\* answer is the same whether the body parses or not.
C4_CaptureAnswersWithReceivedBytes ==
    LET o == exchange.response
        gz == ContentEncodingGzip \in o.headers
        bytes == IF gz THEN o.body.content.gzip ELSE o.body
    IN  ( /\ CaptureExchange
          /\ o.status = StatusOK
          /\ o.intact
          /\ bytes.size <= BodyLimit ) =>
            exchange.resp =
                [status |-> o.status,
                 headers |-> IF gz THEN o.headers \ {ContentEncodingGzip, ContentLength}
                             ELSE o.headers,
                 body |-> bytes,
                 complete |-> TRUE]

\* a capture whose origin body came gzip-encoded has been answered with the
\* decoded document, which was indexed
C4_Witness ==
    /\ CaptureExchange
    /\ exchange.response =
           GzipReply(StatusOK, "h1", SmallSize, JsonBody(BodyLimit, DocOne), TRUE)
    /\ exchange.resp.status = StatusOK
    /\ exchange.resp.body = JsonBody(BodyLimit, DocOne)
    /\ PartKey1 \in DOMAIN media_map

\* C5: a capture request whose origin status is not 200 is answered straight
\* from the origin call with the origin's response relayed as a stream,
\* whatever its size, and leaves TokenCache and MediaIndex as they were, also
\* when it carries a token header.
C5_CaptureNon200PassesThrough ==
    [][ /\ ( /\ exchange' # NoExchange
             /\ Route(exchange'.request) = "capture_metadata"
             /\ exchange'.response # NoReply
             /\ exchange'.response.status # StatusOK ) =>
               /\ exchange'.resp = [status |-> exchange'.response.status,
                                    headers |-> client(exchange'.response).headers,
                                    body |-> client(exchange'.response).body,
                                    complete |-> exchange'.response.intact]
               /\ \E r \in Reqs : pc[r] = "pass_to_plex" /\ pc'[r] = "idle"
        /\ \A r \in Reqs :
               (pc[r] \in {"idle", "pass_to_plex"} /\ pc'[r] # pc[r]) => caches' = caches
      ]_vars

\* a capture request with a token got a 500 with a body beyond the limit
\* relayed whole, and its token is not in TokenCache
C5_Witness ==
    /\ CaptureExchange
    /\ exchange.request.token = TextHeader("t1")
    /\ exchange.response.status = 500
    /\ exchange.resp.body.size > BodyLimit /\ exchange.resp.complete
    /\ "t1" \notin DOMAIN seen_tokens

C7_RetainedTokensWithinTtl ==
    [][\A r \in Reqs :
        AddTokenStep(r) =>
            /\ TokenOfReq(r) \in DOMAIN seen_tokens'
            /\ \A t \in DOMAIN seen_tokens' : now - seen_tokens'[t] <= TtlTicks
      ]_vars

\* C8: TokenCache changes only in the add of a capture request with origin
\* status 200 and a token header; the membership read of fallback and the
\* passing of time leave it alone, so a token past its TTL still redirects.
C8_OnlyAddChangesTokenCache ==
    [][ /\ (\A r \in Reqs : ~AddTokenStep(r)) => seen_tokens' = seen_tokens
        /\ \A r \in Reqs :
               AddTokenStep(r) =>
                   /\ InCapture(r)
                   /\ response[r].status = StatusOK
                   /\ token_of(request[r].token) # {}
      ]_vars

\* a request is at the gateway on a token that is a second past its TTL
C8_Witness ==
    \E r \in Reqs :
        /\ pc[r] = "pass_to_rclone"
        /\ TokenKnown(r)
        /\ now - seen_tokens[TokenOfReq(r)] >= TtlTicks + TicksPerSec

\* C9: a lookup of key k finds the file of the latest put(k, file) and finds
\* nothing only if there was no put of k: a put sets its key and keeps every
\* other entry, and nothing else changes MediaIndex.
C9_MediaIndexIsLastPut ==
    [][ /\ \A r \in Reqs :
            AddMediaStep(r) =>
                LET k == Head(parts[r])[1]
                    f == Head(parts[r])[2]
                IN  /\ DOMAIN media_map' = DOMAIN media_map \cup {k}
                    /\ media_map'[k] = f
                    /\ \A j \in DOMAIN media_map \ {k} : media_map'[j] = media_map[j]
        /\ (\A r \in Reqs : ~AddMediaStep(r)) => media_map' = media_map
      ]_vars

\* the first part key was put twice, the second put is the one found
C9_Witness ==
    /\ DOMAIN media_map = {PartKey1, PartKey2}
    /\ media_map[PartKey1] = FileA
    /\ media_map[PartKey2] = FileB

\* only adds and puts are under way
OnlyAddsAndPuts ==
    /\ \E r \in Reqs : pc[r] # "idle"
    /\ \A r \in Reqs : pc[r] \in {"idle", "add_token", "add_media"}
\* an add or a put that can take its write lock
SomeAddOrPutCanRun ==
    \E r \in Reqs :
        \/ pc[r] = "add_token" /\ WriteGranted(tok_queue, tok_readers, r)
        \/ pc[r] = "add_media" /\ WriteGranted(media_queue, media_readers, r)

\* C10: adds and puts with distinct keys that run side by side all complete
\* and lose nothing: while only adds and puts are under way one of them can
\* take its lock; an add puts its token in place, keeps every other token
\* that is within the TTL and keeps MediaIndex; a put puts its entry in
\* place, keeps every other key and keeps TokenCache.
C10_NoLostUpdate ==
    [][ /\ OnlyAddsAndPuts' => SomeAddOrPutCanRun'
        /\ \A r \in Reqs :
            /\ AddTokenStep(r) =>
                  /\ TokenOfReq(r) \in DOMAIN seen_tokens'
                  /\ \A t \in DOMAIN seen_tokens \ {TokenOfReq(r)} :
                         now - seen_tokens[t] <= TtlTicks =>
                             /\ t \in DOMAIN seen_tokens'
                             /\ seen_tokens'[t] = seen_tokens[t]
                  /\ media_map' = media_map
            /\ AddMediaStep(r) =>
                  /\ Head(parts[r])[1] \in DOMAIN media_map'
                  /\ media_map'[Head(parts[r])[1]] = Head(parts[r])[2]
                  /\ \A j \in DOMAIN media_map \ {Head(parts[r])[1]} :
                         j \in DOMAIN media_map' /\ media_map'[j] = media_map[j]
                  /\ seen_tokens' = seen_tokens
      ]_vars

\* one request is between its two puts with its token and its first entry
\* in place while another request waits to add a different token
C10_Witness ==
    \E r, q \in Reqs :
        /\ pc[r] = "add_media" /\ Head(parts[r])[1] = PartKey2
        /\ PartKey1 \in DOMAIN media_map
        /\ token_of(request[r].token) # {}
        /\ TokenOfReq(r) \in DOMAIN seen_tokens
        /\ pc[q] = "add_token" /\ TokenOfReq(q) # TokenOfReq(r)

\* ------------------------------------------------------------------------
\* Parsing, failures and routing
\* ------------------------------------------------------------------------
\* the list under a field, empty when the field is absent
ListOrEmpty(rec, field) == IF field \in DOMAIN rec THEN rec[field] ELSE <<>>
Elems(seq) == { seq[i] : i \in DOMAIN seq }
\* the (key, file) pairs of the parts that are present in a document
PresentParts(doc) ==
    { <<p.key, p.file>> :
        p \in UNION { UNION { Elems(ListOrEmpty(m, "Part")) :
                                m \in Elems(ListOrEmpty(md, "Media")) } :
                      md \in Elems(ListOrEmpty(doc.MediaContainer, "Metadata")) } }

\* C11: when a capture with origin status 200 is answered with the document,
\* every (key, file) pair of the parts present in the document has its key in
\* MediaIndex, also when some nested list of the document is missing.
C11_MissingListsAreEmpty ==
    ( /\ CaptureExchange
      /\ exchange.response.status = StatusOK
      /\ exchange.resp.status = StatusOK
      /\ exchange.resp.body.json
      /\ "MediaContainer" \in DOMAIN exchange.resp.body.content ) =>
        \A pair \in PresentParts(exchange.resp.body.content) :
            pair[1] \in DOMAIN media_map

\* a handler has completed after calling an upstream
CalledUpstream == exchange # NoExchange /\ exchange.sent # <<>>

\* C12: every request whose upstream call failed, be it that no response
\* came or that the response body broke off before its end, is answered with
\* 502 and a fixed text.
C12_UpstreamFailureGives502 ==
    (CalledUpstream /\ ~exchange.response.intact) =>
        /\ exchange.resp.status = StatusBadGateway
        /\ exchange.resp.body \in { TextBody("Failed to proxy request"),
                                    TextBody("Failed to read response body") }

\* C13: every answered request was handled by capture_metadata or by
\* fallback, so it made an upstream call; the fetch-children path with a
\* method other than GET is handled by fallback.
C13_EveryRequestReachesAHandler ==
    exchange # NoExchange =>
        /\ exchange.sent # <<>>
        /\ exchange.resp.status # StatusMethodNotAllowed

\* ------------------------------------------------------------------------
\* The locks
\* ------------------------------------------------------------------------
AwaitsNetwork(r) == pc[r] \in {"pass_to_plex", "pass_to_rclone"}
HoldsTokens(r) == r \in tok_readers
HoldsMedia(r) == r \in media_readers
WaitsIn(queue, r) == \E i \in DOMAIN queue : queue[i].req = r

\* C14: no handler holds the lock of TokenCache or of MediaIndex while it
\* awaits a call to the origin or to the gateway.
C14_NoLockAcrossNetworkCall ==
    \A r \in Reqs : AwaitsNetwork(r) => ~HoldsTokens(r) /\ ~HoldsMedia(r)

\* C15: no handler holds both locks, and none asks for one lock while it
\* holds the other.
C15_LocksNeverNested ==
    \A r \in Reqs :
        /\ ~(HoldsTokens(r) /\ HoldsMedia(r))
        /\ HoldsTokens(r) => ~WaitsIn(media_queue, r)
        /\ HoldsMedia(r) => ~WaitsIn(tok_queue, r)

\* C16: a handler that awaits a network response holds nothing that another
\* handler waits for: while it waits, an add of a token or a put of a media
\* entry by another handler is not kept from its lock by it.
C16_NetworkWaitBlocksNobody ==
    \A q, r \in Reqs :
        (q # r /\ AwaitsNetwork(q)) =>
            /\ pc[r] = "add_token" => ~HoldsTokens(q)
            /\ pc[r] = "add_media" => ~HoldsMedia(q)

\* C17: a capture registers its token only after its body has been buffered
\* within the 1 MiB limit, so a capture that fails to read its body and
\* answers 502 leaves TokenCache unchanged.
C17_TokenRegisteredAfterBuffering ==
    [][\A r \in Reqs :
        AddTokenStep(r) =>
            /\ client(response[r]).intact
            /\ client(response[r]).body.size <= BodyLimit
      ]_vars

\* ------------------------------------------------------------------------
\* Upstream calls and the origin of the cached data
\* ------------------------------------------------------------------------
\* C18: a request makes at most one upstream call: no call is repeated, and
\* a request whose only call failed, to the gateway or to the origin, is
\* answered with 502.
C18_AtMostOneUpstreamCall ==
    /\ \A r \in Reqs : Len(sent[r]) <= 1
    /\ Len(exchange.sent) <= 1
    /\ (CalledUpstream /\ exchange.response = NoReply) =>
           exchange.resp = ErrorResponse("Failed to proxy request")

\* a redirected request whose gateway call failed got 502 after that one call
C18_Witness ==
    /\ Len(exchange.sent) = 1
    /\ exchange.sent[1].to = "rclone"
    /\ exchange.response = NoReply
    /\ exchange.resp.status = StatusBadGateway

\* C19: MediaIndex gets an entry only as a part of the document of a capture
\* whose origin status is 200, TokenCache gets a token only as the token
\* header of such a capture, and no step of a fallback request changes
\* either one.
C19_CachesHoldOnlyCapturedData ==
    [][ /\ \A r \in Reqs :
            /\ AddMediaStep(r) =>
                  /\ InCapture(r) /\ response[r].status = StatusOK
                  /\ Head(parts[r]) \in PresentParts(client(response[r]).body.content)
                  /\ \A k \in DOMAIN media_map' :
                        (k \notin DOMAIN media_map \/ media_map'[k] # media_map[k]) =>
                            <<k, media_map'[k]>> = Head(parts[r])
            /\ AddTokenStep(r) =>
                  /\ InCapture(r) /\ response[r].status = StatusOK
                  /\ \A t \in DOMAIN seen_tokens' :
                        (t \notin DOMAIN seen_tokens \/ seen_tokens'[t] # seen_tokens[t]) =>
                            request[r].token = TextHeader(t)
            /\ (InFallback(r) /\ pc'[r] # pc[r]) => caches' = caches
        /\ (\A r \in Reqs : ~AddMediaStep(r)) => media_map' = media_map
        /\ (\A r \in Reqs : ~AddTokenStep(r)) => seen_tokens' = seen_tokens
      ]_vars

\* both collections are filled and a fallback request has been redirected
C19_Witness ==
    /\ exchange.sent # <<>> /\ exchange.sent[1].to = "rclone"
    /\ exchange.resp.status = StatusOK
    /\ DOMAIN media_map = {PartKey1, PartKey2}
    /\ DOMAIN seen_tokens = {"t1", "t2"}

\* ------------------------------------------------------------------------
\* Progress.  The lock protocol depends neither on the clock nor on which
\* token a request carries, and on an upstream reply only through the branch
\* the handler takes on it: LockSpec is the proxy at one instant, with one
\* token value and with one reply for every branch.  Its fairness: a response
\* that is ready leaves; a handler that can take a step again and again takes
\* one, which says that every network call returns (with a response or an
\* error), that the runtime runs every task that is ready, and that a lock is
\* given to the head of its queue (the queues themselves are first-in
\* first-out).
\* ------------------------------------------------------------------------
HandlerStep(r) ==
    \/ fallback_tokens(r) \/ fallback_media(r) \/ pass_to_rclone(r)
    \/ pass_to_plex_err(r) \/ pass_to_plex_ok(r)
    \/ capture_add_token(r) \/ capture_to_bytes(r) \/ capture_add_media(r)

\* a capture reply with two parts, one that does not parse, one that breaks
\* off, one that is no 200; a media reply; a gateway reply; no reply
LockReplies ==
    { Reply(StatusOK, "h2", JsonBody(BodyLimit, DocTwo), TRUE),
      Reply(StatusOK, "h2", TextBody("<html>"), TRUE),
      Reply(StatusOK, "h2", JsonBody(SmallSize, DocOne), FALSE),
      Reply(500, "h2", JsonBody(BodyLimit + 1, DocOne), TRUE),
      Reply(404, "h6", TextBody("not found"), TRUE),
      Reply(StatusOK, "h3", TextBody("media bytes"), TRUE),
      NoReply }

LockInputs ==
    /\ \A r \in Reqs : request[r].token # TextHeader("t2")
    /\ exchange.request.token # TextHeader("t2")
    /\ \A r \in Reqs : response[r] \in LockReplies
    /\ exchange.response \in LockReplies

LockDispatch(r) == Dispatch(r) /\ LockInputs'
LockStep(r) == HandlerStep(r) /\ LockInputs'

LockNext ==
    \/ Delivered
    \/ \E r \in Reqs : LockDispatch(r)
    \/ \E r \in Reqs : LockStep(r)

LockSpec ==
    /\ Init
    /\ [][LockNext]_vars
    /\ WF_vars(Delivered)
    /\ \A r \in Reqs : SF_vars(LockStep(r))

\* handler r waits for a lock
Waiting(r) == WaitsIn(tok_queue, r) \/ WaitsIn(media_queue, r)

\* C20: with every network call returning and the locks granted fairly,
\* every handler that waits for the lock of TokenCache or of MediaIndex gets
\* it (it stops waiting, or waits with fewer puts left), and every request
\* completes.
C20_EveryRequestCompletes ==
    \A r \in Reqs :
        /\ (pc[r] # "idle") ~> (pc[r] = "idle")
        /\ \A n \in 0..2 :
               (Waiting(r) /\ Len(parts[r]) = n) ~> (~Waiting(r) \/ Len(parts[r]) < n)

\* a capture waits to add its token while a redirected request holds the
\* read guard of TokenCache over its gateway call
C20_Witness ==
    \E q, r \in Reqs :
        /\ pc[q] = "pass_to_rclone" /\ HoldsTokens(q)
        /\ pc[r] = "add_token" /\ WaitsIn(tok_queue, r)

====
